---- MODULE Spec2Model ----
(***************************************************************************)
(* Model of hr_dashboard.py: the cached loader load_data (date parsing,    *)
(* fix_dob, Age / Tenure_Years, categorical normalisation) and the script  *)
(* body that Streamlit re-executes on every widget interaction (filter     *)
(* options, filtering, key metrics, CSV export).                           *)
(*                                                                         *)
(* Text is a sequence of code points, so that strip / title / sorted and   *)
(* strptime are computed, not assumed.  A cell of the data frame is a      *)
(* tagged tuple: <<"str", text>>, <<"num", n>>, <<"ts", y, m, d>>,         *)
(* <<"nan">> (NaN) or <<"nat">> (NaT).                                     *)
(***************************************************************************)
EXTENDS Integers, Sequences, FiniteSets, TLC

VARIABLES
    fileExists,       \* HRDataset_v14_cleaned.csv is present
    csvRows,          \* the rows of the CSV file as read_csv returns them
    now,              \* datetime.now() of the run that executes load_data
    pc,               \* "start" | "dashboard" | "failed"
    cached,           \* st.cache_data holds a result of load_data
    df,               \* the value load_data returned: None or the rows
    selected_dept,
    selected_status,
    selected_gender,
    selected_perf,
    show_data,        \* the "Show Filtered Data" checkbox
    display_columns,  \* the multiselect of columns
    departments,
    emp_status,
    genders,
    perf_scores,
    filtered_df,
    total_employees,
    termination_rate, \* a rational [num, den]; den = 0 is a division by zero
    csv,              \* the text handed to the download button, or None
    rendered,         \* the dashboard elements drawn by the last run
    errors            \* the st.error messages shown by the last run

vars == <<fileExists, csvRows, now, pc, cached, df, selected_dept,
          selected_status, selected_gender, selected_perf, show_data,
          display_columns, departments, emp_status, genders, perf_scores,
          filtered_df, total_employees, termination_rate, csv, rendered,
          errors>>

-----------------------------------------------------------------------------
(* Bounds *)

MaxRows == 2

MaxCols == 2

-----------------------------------------------------------------------------
(* Text *)

Digits == <<"0", "1", "2", "3", "4", "5", "6", "7", "8", "9">>

Uppers ==
    << "A", "B", "C", "D", "E", "F", "G", "H", "I", "J", "K", "L", "M",
       "N", "O", "P", "Q", "R", "S", "T", "U", "V", "W", "X", "Y", "Z" >>

Lowers ==
    << "a", "b", "c", "d", "e", "f", "g", "h", "i", "j", "k", "l", "m",
       "n", "o", "p", "q", "r", "s", "t", "u", "v", "w", "x", "y", "z" >>

IndexOf(c, table) == CHOOSE i \in 1..Len(table) : table[i] = c

\* the code point of a character
Ord(c) ==
    IF c = " " THEN 32
    ELSE IF c = "," THEN 44
    ELSE IF c = "-" THEN 45
    ELSE IF c = "/" THEN 47
    ELSE IF \E i \in 1..10 : Digits[i] = c THEN 47 + IndexOf(c, Digits)
    ELSE IF \E i \in 1..26 : Uppers[i] = c THEN 64 + IndexOf(c, Uppers)
    ELSE 96 + IndexOf(c, Lowers)

\* the text whose characters are cs
Txt(cs) == [i \in 1..Len(cs) |-> Ord(cs[i])]

IsUpper(c) == c \in 65..90
IsLower(c) == c \in 97..122
IsAlpha(c) == IsUpper(c) \/ IsLower(c)
IsDigit(c) == c \in 48..57
IsSpace(c) == c \in {9, 10, 11, 12, 13, 32}
ToUpper(c) == IF IsLower(c) THEN c - 32 ELSE c
ToLower(c) == IF IsUpper(c) THEN c + 32 ELSE c

\* str.strip()
Strip(s) ==
    LET keep == {i \in 1..Len(s) : ~IsSpace(s[i])}
    IN  IF keep = {} THEN << >>
        ELSE LET lo == CHOOSE i \in keep : \A j \in keep : i <= j
                 hi == CHOOSE i \in keep : \A j \in keep : j <= i
             IN  SubSeq(s, lo, hi)

\* str.title(): a letter that follows a non-letter is upper-cased, every
\* other letter is lower-cased
Title(s) ==
    [i \in 1..Len(s) |->
        IF i = 1 \/ ~IsAlpha(s[i - 1]) THEN ToUpper(s[i]) ELSE ToLower(s[i])]

\* the order of Python on str: lexicographic by code point
RECURSIVE StrLess(_, _)
StrLess(a, b) ==
    IF b = << >> THEN FALSE
    ELSE IF a = << >> THEN TRUE
    ELSE IF Head(a) # Head(b) THEN Head(a) < Head(b)
    ELSE StrLess(Tail(a), Tail(b))

-----------------------------------------------------------------------------
(* Cells *)

Str(s) == <<"str", s>>
Num(n) == <<"num", n>>
Ts(y, m, d) == <<"ts", y, m, d>>
NaN == <<"nan">>
NaT == <<"nat">>
Frac(n, d) == <<"frac", n, d>>

IsStr(v) == v[1] = "str"
IsTs(v) == v[1] = "ts"
isna(v) == v \in {NaN, NaT}

All == Txt(<<"A", "l", "l">>)

-----------------------------------------------------------------------------
(* Dates *)

IsLeap(y) == (y % 4 = 0 /\ y % 100 # 0) \/ y % 400 = 0

DaysInMonth(y, m) ==
    IF m = 2 THEN (IF IsLeap(y) THEN 29 ELSE 28)
    ELSE IF m \in {4, 6, 9, 11} THEN 30 ELSE 31

ValidDate(y, m, d) == m \in 1..12 /\ d \in 1..DaysInMonth(y, m)

\* the proleptic Gregorian day number of y-m-d (days since 1970-01-01)
DayNumber(y, m, d) ==
    LET yy  == IF m <= 2 THEN y - 1 ELSE y
        era == yy \div 400
        yoe == yy - era * 400
        mp  == IF m > 2 THEN m - 3 ELSE m + 9
        doy == (153 * mp + 2) \div 5 + d - 1
        doe == yoe * 365 + yoe \div 4 - yoe \div 100 + doy
    IN  era * 146097 + doe - 719468

ToOrdinal(t) == DayNumber(t[2], t[3], t[4])

RECURSIVE DigitsValue(_)
DigitsValue(s) ==
    IF s = << >> THEN 0
    ELSE 10 * DigitsValue(SubSeq(s, 1, Len(s) - 1)) + (s[Len(s)] - 48)

AllDigits(s) == \A i \in 1..Len(s) : IsDigit(s[i])

\* the three fields of a text that holds exactly two slashes, else << >>
SplitSlash(s) ==
    IF Cardinality({i \in 1..Len(s) : s[i] = 47}) # 2 THEN << >>
    ELSE LET p1 == CHOOSE i \in 1..Len(s) : s[i] = 47 /\ \A j \in 1..(i - 1) : s[j] # 47
             p2 == CHOOSE i \in 1..Len(s) : s[i] = 47 /\ \A j \in (i + 1)..Len(s) : s[j] # 47
         IN  <<SubSeq(s, 1, p1 - 1), SubSeq(s, p1 + 1, p2 - 1), SubSeq(s, p2 + 1, Len(s))>>

\* %y maps 00..68 to 20xx and 69..99 to 19xx; %Y is the year as written
YearOf(yv, yearDigits) ==
    IF yearDigits = 4 THEN yv ELSE IF yv <= 68 THEN 2000 + yv ELSE 1900 + yv

\* a parse that accepts any day and month numbers
MakeTimestampLenient(y, m, d) == Ts(y, m, d)

\* a Timestamp, or NaT for what is no calendar date or lies outside the years
\* a nanosecond Timestamp can hold
MakeTimestamp(y, m, d) ==
    IF ValidDate(y, m, d) /\ y \in 1678..2261 THEN Ts(y, m, d) ELSE NaT

\* strptime on the fields: month and day of one or two digits, a year of
\* exactly yearDigits digits
ParseFields(f, yearDigits) ==
    IF f = << >> THEN NaT
    ELSE IF ~(/\ Len(f[1]) \in 1..2 /\ AllDigits(f[1])
              /\ Len(f[2]) \in 1..2 /\ AllDigits(f[2])
              /\ Len(f[3]) = yearDigits /\ AllDigits(f[3]))
    THEN NaT
    ELSE MakeTimestamp(YearOf(DigitsValue(f[3]), yearDigits),
                       DigitsValue(f[1]), DigitsValue(f[2]))

\* pd.to_datetime(value, format='%m/%d/<%Y or %y>', errors='coerce'): text
\* that does not match the format becomes NaT, and so does a missing value
to_datetime(v, yearDigits) ==
    IF ~IsStr(v) THEN NaT ELSE ParseFields(SplitSlash(v[2]), yearDigits)

-----------------------------------------------------------------------------
(* load_data *)

\* the columns of the CSV file that the model keeps
CsvColumns ==
    << "Employee_Name", "Position", "Department", "EmploymentStatus", "Sex",
       "PerformanceScore", "Salary", "Terminated", "DOB", "DateofHire",
       "DateofTermination", "LastPerformanceReview_Date" >>

\* df.columns after load_data
Columns == CsvColumns \o << "Age", "Tenure_Years" >>

Range(f) == {f[i] : i \in DOMAIN f}

NanText == Txt(<<"N", "a", "n">>)

\* the year the source compares a parsed year of birth with
CutoffYear == 2025

\* date_obj.replace(year=date_obj.year - 100); a ValueError ends in the
\* bare except of fix_dob, which returns NaT
ReplaceYear(t, y) == IF ValidDate(y, t[3], t[4]) THEN Ts(y, t[3], t[4]) ELSE NaT

\* the part of fix_dob after the parse; NaT.year > 2025 is False
ShiftCentury(date_obj) ==
    IF IsTs(date_obj) /\ date_obj[2] > CutoffYear
    THEN ReplaceYear(date_obj, date_obj[2] - 100)
    ELSE date_obj

\* fix_dob, the function applied to every DOB cell
fix_dob(date_str) ==
    IF isna(date_str) THEN NaT ELSE ShiftCentury(to_datetime(date_str, 2))

\* (current_date - column).dt.days / 365.25 for one cell
YearsSince(current_date, t) ==
    IF ~IsTs(t) THEN NaN
    ELSE Frac(4 * (ToOrdinal(current_date) - ToOrdinal(t)), 1461)

\* a float cell compared with a whole number; NaN compares False
FracLess(f, n) == f # NaN /\ f[2] < n * f[3]
FracGreater(f, n) == f # NaN /\ f[2] > n * f[3]

\* df.loc[df['Age'] < 0, 'Age'] = np.nan; df.loc[df['Age'] > 100, 'Age'] = np.nan
CleanAge(a) == IF FracLess(a, 0) \/ FracGreater(a, 100) THEN NaN ELSE a

\* df[col].astype(str).str.strip().str.title() for one cell
AsType_str(v) == IF isna(v) THEN Txt(<<"n", "a", "n">>) ELSE v[2]
Normalize(v) == Str(Title(Strip(AsType_str(v))))

\* a column read_csv gives dtype object: it holds text
IsObjectCol(rows, col) == \E i \in DOMAIN rows : IsStr(rows[i][col])

NotNormalized ==
    {"Employee_Name", "DOB", "DateofHire", "DateofTermination",
     "LastPerformanceReview_Date"}

\* lines 48-71: the four date columns of one row
ParseRow(r) ==
    [r EXCEPT
       !.DateofHire = to_datetime(@, 4),
       !.DateofTermination = to_datetime(IF @ = Str(NanText) THEN NaT ELSE @, 4),
       !.LastPerformanceReview_Date = to_datetime(@, 4),
       !.DOB = fix_dob(@)]

\* lines 74-80: Age and Tenure_Years of one row
DeriveRow(r, current_date) ==
    [c \in Range(Columns) |->
       IF c = "Age" THEN CleanAge(YearsSince(current_date, r.DOB))
       ELSE IF c = "Tenure_Years" THEN YearsSince(current_date, r.DateofHire)
       ELSE r[c]]

\* lines 83-86: the object columns outside the exclusion list are normalised
NormalizeFrame(frame) ==
    [i \in DOMAIN frame |->
       [c \in Range(Columns) |->
          IF IsObjectCol(frame, c) /\ c \notin NotNormalized
          THEN Normalize(frame[i][c])
          ELSE frame[i][c]]]

\* the try block of load_data on the rows read_csv returned
load_data(rows, current_date) ==
    NormalizeFrame(
        [i \in DOMAIN rows |-> DeriveRow(ParseRow(rows[i]), current_date)])

-----------------------------------------------------------------------------
(* The script body: filter options, filtering, key metrics, export *)

\* sorted(...) of a set of texts
RECURSIVE Sorted(_)
Sorted(S) ==
    IF S = {} THEN << >>
    ELSE LET least == CHOOSE x \in S : \A y \in S \ {x} : StrLess(x, y)
         IN  <<least>> \o Sorted(S \ {least})

\* ['All'] + sorted(df[col].dropna().unique().tolist())
Options(rows, col) ==
    <<All>> \o Sorted({rows[i][col][2] : i \in {j \in DOMAIN rows : ~isna(rows[j][col])}})

RECURSIVE SelectNot(_, _, _)
\* the comparison of the filter step inverted
SelectNot(rows, col, sel) ==
    IF rows = << >> THEN << >>
    ELSE (IF Head(rows)[col] # Str(sel) THEN <<Head(rows)>> ELSE << >>)
         \o SelectNot(Tail(rows), col, sel)

RECURSIVE Select(_, _, _)
\* the rows of a frame whose column col equals the text sel, in order
Select(rows, col, sel) ==
    IF rows = << >> THEN << >>
    ELSE (IF Head(rows)[col] = Str(sel) THEN <<Head(rows)>> ELSE << >>)
         \o Select(Tail(rows), col, sel)

\* a filter step that compares with the wildcard as with any other value
FilterByNoWildcard(rows, col, sel) == Select(rows, col, sel)

\* if selected != 'All': filtered_df = filtered_df[filtered_df[col] == selected]
FilterBy(rows, col, sel) ==
    IF sel # All THEN Select(rows, col, sel) ELSE rows

RECURSIVE KeepWhere(_, _, _, _)
\* the rows of cur at the positions where base matches
KeepWhere(cur, base, col, sel) ==
    IF cur = << >> THEN << >>
    ELSE (IF Head(base)[col] = Str(sel) THEN <<Head(cur)>> ELSE << >>)
         \o KeepWhere(Tail(cur), Tail(base), col, sel)

MaskStep(cur, base, col, sel) ==
    IF sel # All THEN KeepWhere(cur, base, col, sel) ELSE cur

\* filter steps whose masks are computed on the unfiltered frame and applied
\* by position to the frame filtered so far
ApplyFiltersPositional(rows, dept, status, gender, perf) ==
    MaskStep(MaskStep(MaskStep(MaskStep(rows,
        rows, "Department", dept), rows, "EmploymentStatus", status),
        rows, "Sex", gender), rows, "PerformanceScore", perf)

\* the four filter steps applied to a copy of the frame
ApplyFilters(rows, dept, status, gender, perf) ==
    FilterBy(FilterBy(FilterBy(FilterBy(rows,
        "Department", dept), "EmploymentStatus", status), "Sex", gender),
        "PerformanceScore", perf)

RECURSIVE CountTerminated(_)
\* len(filtered_df[filtered_df['Terminated'] == 1])
CountTerminated(rows) ==
    IF rows = << >> THEN 0
    ELSE (IF Head(rows).Terminated = Num(1) THEN 1 ELSE 0)
         + CountTerminated(Tail(rows))

\* the rate without the guard on an empty subset
TerminationRateUnguarded(terminated_employees, total) ==
    Frac(terminated_employees * 100, total)

\* (terminated_employees / total_employees * 100) if total_employees > 0 else 0
TerminationRate(terminated_employees, total) ==
    IF total > 0 THEN Frac(terminated_employees * 100, total) ELSE Frac(0, 1)

RECURSIVE Decimal(_)
\* str(n) for a natural number
Decimal(n) ==
    IF n < 10 THEN <<48 + n>> ELSE Decimal(n \div 10) \o <<48 + (n % 10)>>

Pad2(n) == IF n < 10 THEN <<48>> \o Decimal(n) ELSE Decimal(n)

\* the text to_csv writes for a cell: empty for a missing value, the
\* decimal digits of an integer, YYYY-MM-DD for a Timestamp
FormatCell(v) ==
    IF isna(v) THEN << >>
    ELSE IF IsStr(v) THEN v[2]
    ELSE IF IsTs(v) THEN Decimal(v[2]) \o <<45>> \o Pad2(v[3]) \o <<45>> \o Pad2(v[4])
    ELSE Decimal(v[2])

\* to_csv with the index column written
to_csvWithIndex(rows, columns) ==
    <<(<<"">> \o columns)>> \o
    [i \in DOMAIN rows |->
       <<Decimal(i - 1)>> \o [j \in DOMAIN columns |-> FormatCell(rows[i][columns[j]])]]

\* frame[columns].to_csv(index=False) as its records: the header, then one
\* record of fields per row (the quoting and joining of fields is not modelled)
to_csv(rows, columns) ==
    <<columns>> \o
    [i \in DOMAIN rows |-> [j \in DOMAIN columns |-> FormatCell(rows[i][columns[j]])]]

NoCsv == << >>

\* default= of the multiselect
DefaultColumns ==
    << "Employee_Name", "Department", "Position", "Salary",
       "PerformanceScore", "EmploymentStatus" >>

NotFoundMsg == "Dataset file not found. Please ensure 'HRDataset_v14_cleaned.csv' is in the same directory."
UnableMsg == "Unable to load data. Please check if the dataset file exists."

\* what the script draws above the branch on df, and inside it
Preamble == {"style"}
DashboardParts ==
    {"title", "filters", "metrics", "charts", "tabs", "table_section",
     "dataframe", "download", "footer"}

\* the frame the dashboard part of the script works on
Frame(d) == d.rows

\* a loader that answers a missing file with an empty frame
CachedLoadEmptyFrame ==
    IF cached THEN df
    ELSE IF fileExists
         THEN [isNone |-> FALSE, rows |-> load_data(csvRows, now)]
         ELSE [isNone |-> FALSE, rows |-> << >>]

\* load_data() behind st.cache_data: the stored value on a hit, else the
\* result of the body (None when read_csv raises FileNotFoundError)
CachedLoad ==
    IF cached THEN df
    ELSE IF fileExists
         THEN [isNone |-> FALSE, rows |-> load_data(csvRows, now)]
         ELSE [isNone |-> TRUE, rows |-> << >>]

\* one execution of the script with the given widget state
RunScript(dept, status, gender, perf, show, columns) ==
    LET data == CachedLoad
        filtered == ApplyFilters(Frame(data), dept, status, gender, perf)
    IN  /\ cached' = TRUE
        /\ df' = data
        /\ selected_dept' = dept
        /\ selected_status' = status
        /\ selected_gender' = gender
        /\ selected_perf' = perf
        /\ show_data' = show
        /\ display_columns' = columns
        /\ IF ~data.isNone
           THEN /\ pc' = "dashboard"
                /\ departments' = Options(Frame(data), "Department")
                /\ emp_status' = Options(Frame(data), "EmploymentStatus")
                /\ genders' = Options(Frame(data), "Sex")
                /\ perf_scores' = Options(Frame(data), "PerformanceScore")
                /\ filtered_df' = filtered
                /\ total_employees' = Len(filtered)
                /\ termination_rate' =
                       TerminationRate(CountTerminated(filtered), Len(filtered))
                /\ csv' = IF show /\ columns # << >>
                          THEN to_csv(filtered, columns) ELSE NoCsv
                /\ rendered' =
                       Preamble \cup (DashboardParts \ {"dataframe", "download"})
                       \cup (IF show /\ columns # << >>
                             THEN {"dataframe", "download"} ELSE {})
                /\ errors' = << >>
           ELSE /\ pc' = "failed"
                /\ departments' = << >>
                /\ emp_status' = << >>
                /\ genders' = << >>
                /\ perf_scores' = << >>
                /\ filtered_df' = << >>
                /\ total_employees' = 0
                /\ termination_rate' = Frac(0, 1)
                /\ csv' = NoCsv
                /\ rendered' = Preamble
                /\ errors' = <<NotFoundMsg, UnableMsg>>
        /\ UNCHANGED <<fileExists, csvRows, now>>

\* the columns the multiselect is exercised with
ExportChoices == {"Employee_Name", "Salary", "DateofTermination"}

\* the lists of distinct columns of length at most n
ColumnLists(n) ==
    UNION {{s \in [1..k -> ExportChoices] : \A i, j \in 1..k : i # j => s[i] # s[j]}
           : k \in 0..n}

\* the first run of a session: every selectbox shows its first option, the
\* checkbox is off
FirstRun ==
    /\ pc = "start"
    /\ RunScript(All, All, All, All, FALSE, DefaultColumns)

SelectDept ==
    /\ pc = "dashboard"
    /\ \E v \in Range(departments) :
         /\ v # selected_dept
         /\ RunScript(v, selected_status, selected_gender, selected_perf,
                      show_data, display_columns)

SelectStatus ==
    /\ pc = "dashboard"
    /\ \E v \in Range(emp_status) :
         /\ v # selected_status
         /\ RunScript(selected_dept, v, selected_gender, selected_perf,
                      show_data, display_columns)

SelectGender ==
    /\ pc = "dashboard"
    /\ \E v \in Range(genders) :
         /\ v # selected_gender
         /\ RunScript(selected_dept, selected_status, v, selected_perf,
                      show_data, display_columns)

SelectPerf ==
    /\ pc = "dashboard"
    /\ \E v \in Range(perf_scores) :
         /\ v # selected_perf
         /\ RunScript(selected_dept, selected_status, selected_gender, v,
                      show_data, display_columns)

\* ticking or clearing "Show Filtered Data"; a multiselect that comes into
\* view shows its default
ToggleShowData ==
    /\ pc = "dashboard"
    /\ RunScript(selected_dept, selected_status, selected_gender,
                 selected_perf, ~show_data, DefaultColumns)

SelectColumns ==
    /\ pc = "dashboard"
    /\ show_data
    /\ \E columns \in ColumnLists(MaxCols) :
         /\ columns # display_columns
         /\ RunScript(selected_dept, selected_status, selected_gender,
                      selected_perf, TRUE, columns)

\* reloading the page: a new session with default widgets, the cache kept
Refresh ==
    /\ pc # "start"
    /\ RunScript(All, All, All, All, FALSE, DefaultColumns)

Next ==
    \/ FirstRun
    \/ SelectDept
    \/ SelectStatus
    \/ SelectGender
    \/ SelectPerf
    \/ ToggleShowData
    \/ SelectColumns
    \/ Refresh

-----------------------------------------------------------------------------
(* Initial states *)

\* the dates load_data is run on: before and after the end of 2025
NowValues == {Ts(2025, 6, 15), Ts(2026, 11, 3)}

BaseRow ==
    [Employee_Name |-> Str(Txt(<<"R", "o", "e", ",", " ", "A", "n", "n">>)),
     Position |-> Str(Txt(<<"A", "r", "e", "a", " ", "S", "a", "l", "e", "s", " ", "M", "a", "n", "a", "g", "e", "r">>)),
     Department |-> Str(Txt(<<"S", "a", "l", "e", "s">>)),
     EmploymentStatus |-> Str(Txt(<<"A", "c", "t", "i", "v", "e">>)),
     Sex |-> Str(Txt(<<"F">>)),
     PerformanceScore |-> Str(Txt(<<"E", "x", "c", "e", "e", "d", "s">>)),
     Salary |-> Num(60000),
     Terminated |-> Num(0),
     DOB |-> Str(Txt(<<"0", "1", "/", "0", "1", "/", "7", "0">>)),
     DateofHire |-> Str(Txt(<<"7", "/", "5", "/", "2", "0", "1", "1">>)),
     DateofTermination |-> Str(NanText),
     LastPerformanceReview_Date |-> Str(Txt(<<"1", "/", "1", "7", "/", "2", "0", "1", "9">>))]

\* rows that differ in the filter dimensions: untrimmed and differently cased
\* spellings of one department, a missing department, a terminated employee
CategoryRows ==
    { BaseRow,
      [BaseRow EXCEPT !.Employee_Name = Str(Txt(<<"W", "u", ",", " ", "B", "o">>)),
                      !.Department = Str(Txt(<<"s", "a", "l", "e", "s", " ">>)),
                      !.EmploymentStatus = Str(Txt(<<"T", "e", "r", "m", "i", "n", "a", "t", "e", "d", " ", "f", "o", "r", " ", "C", "a", "u", "s", "e">>)),
                      !.Sex = Str(Txt(<<"M", " ">>)),
                      !.PerformanceScore = Str(Txt(<<"F", "u", "l", "l", "y", " ", "M", "e", "e", "t", "s">>)),
                      !.Salary = Num(55000),
                      !.Terminated = Num(1),
                      !.DateofTermination = Str(Txt(<<"4", "/", "1", "/", "2", "0", "1", "6">>))],
      [BaseRow EXCEPT !.Department = NaN,
                      !.PerformanceScore = Str(Txt(<<"P", "I", "P">>)),
                      !.Salary = Num(48000)] }

\* rows that differ in the date columns: two-digit years on both sides of the
\* cutoff, missing and malformed values, a hire date in the future
DateRows ==
    { BaseRow,
      [BaseRow EXCEPT !.DOB = Str(Txt(<<"1", "2", "/", "3", "1", "/", "2", "5">>)),
                      !.DateofHire = Str(Txt(<<"0", "1", "/", "0", "1", "/", "2", "0", "3", "0">>)),
                      !.DateofTermination = Str(Txt(<<"4", "/", "1", "/", "2", "0", "1", "6">>)),
                      !.LastPerformanceReview_Date = Str(Txt(<<"2", "0", "1", "9", "-", "0", "1", "-", "1", "7">>))],
      [BaseRow EXCEPT !.DOB = Str(Txt(<<"0", "1", "/", "0", "1", "/", "2", "6">>)),
                      !.DateofHire = Str(Txt(<<"1", "3", "/", "4", "5", "/", "2", "0", "1", "1">>)),
                      !.LastPerformanceReview_Date = NaN],
      [BaseRow EXCEPT !.DOB = NaN,
                      !.DateofHire = NaN,
                      !.DateofTermination = Str(Txt(<<"2", "/", "3", "0", "/", "2", "0", "1", "6">>))],
      [BaseRow EXCEPT !.DOB = Str(Txt(<<"1", "9", "8", "3", "-", "0", "7", "-", "1", "0">>)),
                      !.DateofTermination = Str(Txt(<<"N", "a", "n", " ">>))] }

\* the non-empty sequences of at most n rows drawn from S
RowSeqs(S, n) == UNION {[1..k -> S] : k \in 1..n}

InitWith(rowChoices, nowChoices) ==
    /\ fileExists \in BOOLEAN
    /\ csvRows \in (IF fileExists THEN RowSeqs(rowChoices, MaxRows) ELSE {<< >>})
    /\ now \in nowChoices
    /\ pc = "start"
    /\ cached = FALSE
    /\ df = [isNone |-> TRUE, rows |-> << >>]
    /\ selected_dept = All
    /\ selected_status = All
    /\ selected_gender = All
    /\ selected_perf = All
    /\ show_data = FALSE
    /\ display_columns = DefaultColumns
    /\ departments = << >>
    /\ emp_status = << >>
    /\ genders = << >>
    /\ perf_scores = << >>
    /\ filtered_df = << >>
    /\ total_employees = 0
    /\ termination_rate = Frac(0, 1)
    /\ csv = NoCsv
    /\ rendered = {}
    /\ errors = << >>

Init == InitWith(CategoryRows, {Ts(2026, 11, 3)})

InitDates == InitWith(DateRows, NowValues)

Spec == Init /\ [][Next]_vars

SpecLoad == InitDates /\ [][Next]_vars

-----------------------------------------------------------------------------
(* Properties *)

Rows == Frame(df)

\* the year a text in month/day/2-digit-year form denotes under %y
ParsedDob(v) == to_datetime(v, 2)

\* C1: after load_data every row has Age null or in [0, 100] and
\* Tenure_Years null or >= 0, whatever its DOB and DateofHire are
C1_AgeTenureInRange ==
    pc = "dashboard" =>
        \A i \in DOMAIN Rows :
            /\ \/ Rows[i].Age = NaN
               \/ ~FracLess(Rows[i].Age, 0) /\ ~FracGreater(Rows[i].Age, 100)
            /\ \/ Rows[i].Tenure_Years = NaN
               \/ ~FracLess(Rows[i].Tenure_Years, 0)

\* C2: the displayed termination rate is the share of the filtered rows with
\* Terminated == 1 times 100, lies in [0, 100], and is exactly 0 (no division
\* by zero) when the filtered subset is empty
C2_TerminationRateInRange ==
    pc = "dashboard" =>
        /\ termination_rate[3] > 0
        /\ 0 <= termination_rate[2]
        /\ termination_rate[2] <= 100 * termination_rate[3]
        /\ filtered_df = << >> => termination_rate = Frac(0, 1)
        /\ filtered_df # << >> =>
               termination_rate =
                   Frac(100 * Cardinality({i \in DOMAIN filtered_df :
                                             filtered_df[i].Terminated = Num(1)}),
                        Len(filtered_df))

\* a filter combination that no row satisfies
C2_Witness ==
    /\ pc = "dashboard"
    /\ filtered_df = << >>
    /\ selected_dept # All
    /\ termination_rate = Frac(0, 1)

\* the conjunction of the equality predicates of the selections that are not
\* the wildcard
C3_Matches(r) ==
    /\ selected_dept = All \/ r.Department = Str(selected_dept)
    /\ selected_status = All \/ r.EmploymentStatus = Str(selected_status)
    /\ selected_gender = All \/ r.Sex = Str(selected_gender)
    /\ selected_perf = All \/ r.PerformanceScore = Str(selected_perf)

\* C3: the filtered subset is exactly the rows of the full dataset, in order,
\* that satisfy the conjunction of the equality predicates, a predicate being
\* skipped if and only if its selection is 'All'
C3_FilterIsConjunction ==
    pc = "dashboard" => filtered_df = SelectSeq(Rows, C3_Matches)

\* two predicates at work: some rows kept, some rows dropped
C3_Witness ==
    /\ pc = "dashboard"
    /\ selected_dept # All
    /\ selected_status # All
    /\ selected_gender = All
    /\ filtered_df # << >>
    /\ Len(filtered_df) < Len(Rows)

\* C4: with all four selections 'All' the filtered subset is the full
\* normalized dataset: the same number of rows, the same content
C4_AllWildcardsKeepAll ==
    (/\ pc = "dashboard"
     /\ selected_dept = All /\ selected_status = All
     /\ selected_gender = All /\ selected_perf = All) =>
        /\ filtered_df = Rows
        /\ Len(filtered_df) = Len(csvRows)
        /\ total_employees = Len(csvRows)

C4_Witness ==
    /\ pc = "dashboard"
    /\ selected_dept = All /\ selected_status = All
    /\ selected_gender = All /\ selected_perf = All
    /\ Len(filtered_df) >= 2
    /\ filtered_df[1] # filtered_df[2]

\* C5: filtering is idempotent: the filter steps applied with the same
\* selections to the filtered subset give the filtered subset
C5_FilterIdempotent ==
    pc = "dashboard" =>
        ApplyFilters(filtered_df, selected_dept, selected_status,
                     selected_gender, selected_perf) = filtered_df

\* a filter that dropped rows, applied with two selections
C5_Witness ==
    /\ pc = "dashboard"
    /\ selected_dept # All
    /\ selected_status # All
    /\ filtered_df # << >>
    /\ Len(filtered_df) < Len(Rows)
    /\ selected_perf = All

\* C6: for a DOB in month/day/2-digit-year form fix_dob returns the parsed
\* year minus 100 when the parsed year exceeds the year load_data runs in,
\* and the parsed year otherwise
C6_FixDobUsesCurrentYear ==
    pc = "dashboard" =>
        \A i \in DOMAIN Rows :
            IsTs(ParsedDob(csvRows[i].DOB)) =>
                /\ IsTs(Rows[i].DOB)
                /\ Rows[i].DOB[2] =
                       IF ParsedDob(csvRows[i].DOB)[2] > now[2]
                       THEN ParsedDob(csvRows[i].DOB)[2] - 100
                       ELSE ParsedDob(csvRows[i].DOB)[2]

\* C7: with the CSV file missing load_data reports the failure and returns
\* None, and no part of the dashboard is rendered: only the error messages
C7_NoDashboardAfterLoadFailure ==
    (~fileExists /\ pc # "start") =>
        /\ pc = "failed"
        /\ df.isNone
        /\ rendered \cap DashboardParts = {}
        /\ csv = NoCsv
        /\ errors = <<NotFoundMsg, UnableMsg>>

C7_Witness ==
    /\ ~fileExists
    /\ pc = "failed"
    /\ cached
    /\ errors # << >>

\* the option list the claim describes for a column: 'All', then the sorted
\* distinct values of the rows whose source value is not missing
C8_Expected(col) ==
    <<All>> \o Sorted({Rows[i][col][2] :
                         i \in {j \in DOMAIN Rows : ~isna(csvRows[j][col])}})

\* C8: each option list is 'All' followed by the sorted distinct non-null
\* values of its column in the full dataset; a missing source value never
\* appears as an option; the lists do not depend on the selections
C8_OptionsAreNonNullValues ==
    pc = "dashboard" =>
        /\ departments = C8_Expected("Department")
        /\ emp_status = C8_Expected("EmploymentStatus")
        /\ genders = C8_Expected("Sex")
        /\ perf_scores = C8_Expected("PerformanceScore")

\* C9: the exported CSV has one header line and one data line per row of the
\* currently filtered subset, holds exactly the chosen columns, and each
\* value is the value of that column in the corresponding filtered row
C9_ExportIsFilteredSubset ==
    pc = "dashboard" =>
        /\ (csv # NoCsv) <=> (show_data /\ display_columns # << >>)
        /\ csv # NoCsv =>
             /\ filtered_df = ApplyFilters(Rows, selected_dept, selected_status,
                                           selected_gender, selected_perf)
             /\ Len(csv) = 1 + Len(filtered_df)
             /\ csv[1] = display_columns
             /\ \A i \in DOMAIN filtered_df :
                  /\ Len(csv[i + 1]) = Len(display_columns)
                  /\ \A j \in DOMAIN display_columns :
                       csv[i + 1][j] = FormatCell(filtered_df[i][display_columns[j]])

\* Employee_Name and Salary exported for a subset that a filter narrowed
C9_Witness ==
    /\ pc = "dashboard"
    /\ csv # NoCsv
    /\ display_columns = <<"Employee_Name", "Salary">>
    /\ filtered_df # << >>
    /\ Len(filtered_df) < Len(Rows)
    /\ Len(csv) = 1 + Len(filtered_df)

\* a cell that is no date in month/day/year form with a year of yearDigits
\* digits
C10_Unparseable(v, yearDigits) ==
    \/ ~IsStr(v)
    \/ SplitSlash(v[2]) = << >>
    \/ LET f == SplitSlash(v[2])
       IN  \/ ~(Len(f[1]) \in 1..2 /\ AllDigits(f[1]))
           \/ ~(Len(f[2]) \in 1..2 /\ AllDigits(f[2]))
           \/ ~(Len(f[3]) = yearDigits /\ AllDigits(f[3]))
           \/ ~ValidDate(YearOf(DigitsValue(f[3]), yearDigits),
                         DigitsValue(f[1]), DigitsValue(f[2]))

\* C10: an unparseable date never aborts the load: a DateofTermination of
\* "Nan" and every date cell that does not parse under its format is null in
\* its row, and load_data returns the dataset with every row present
C10_UnparseableDatesBecomeNull ==
    (fileExists /\ pc # "start") =>
        /\ pc = "dashboard"
        /\ ~df.isNone
        /\ Len(Rows) = Len(csvRows)
        /\ \A i \in DOMAIN csvRows :
             /\ Rows[i].Employee_Name = csvRows[i].Employee_Name
             /\ csvRows[i].DateofTermination = Str(NanText) =>
                    Rows[i].DateofTermination = NaT
             /\ C10_Unparseable(csvRows[i].DateofHire, 4) =>
                    Rows[i].DateofHire = NaT
             /\ C10_Unparseable(csvRows[i].DateofTermination, 4) =>
                    Rows[i].DateofTermination = NaT
             /\ C10_Unparseable(csvRows[i].LastPerformanceReview_Date, 4) =>
                    Rows[i].LastPerformanceReview_Date = NaT
             /\ C10_Unparseable(csvRows[i].DOB, 2) => Rows[i].DOB = NaT

\* a loaded dataset with a malformed hire date in one row and a malformed
\* termination date in another
C10_Witness ==
    /\ pc = "dashboard"
    /\ Len(Rows) = 2
    /\ csvRows[1].DateofHire = Str(Txt(<<"1", "3", "/", "4", "5", "/", "2", "0", "1", "1">>))
    /\ Rows[1].DateofHire = NaT
    /\ csvRows[2].DateofTermination = Str(Txt(<<"2", "/", "3", "0", "/", "2", "0", "1", "6">>))
    /\ Rows[2].DateofTermination = NaT
    /\ csvRows[1].DateofTermination = Str(NanText)

====
